---- MODULE Spec2Model ----
(***************************************************************************)
(* The renderer of ketch-core (src/ketch-core/src/renderer.rs) as a state  *)
(* machine: the Renderer struct, the window and the asset manager it       *)
(* reads, the values the caller holds between create_command_buffer,       *)
(* render_scene and execute_command_buffer, and the outcomes of the Vulkan *)
(* calls, which are inputs of the actions.                                 *)
(***************************************************************************)
EXTENDS Integers, Sequences, FiniteSets, TLC

VARIABLES
    renderer,   \* the fields of struct Renderer that the per-frame code reads or writes
    window,     \* the winit window: inner size (an Option) and hidpi factor
    held,       \* what the caller holds: nothing, a command buffer builder, or render_scene's Ok tuple
    ret,        \* observation of the renderer call that has just returned
    crashed,    \* a panic has aborted the process
    futures_made,   \* number of futures created by a completed fence-and-flush (names them)
    last_execute,   \* outcome class of the most recent execute_command_buffer
    ever_submitted, \* some execute_command_buffer has succeeded
    devices,    \* PhysicalDevice::enumerate(&instance): the adapters' types, in enumeration order
    created,    \* what Renderer::new returned, the adapter it selected, the swapchain it asked for
    capabilities,   \* surface.capabilities(physical_device): what the surface supports
    loop_pass   \* Engine::run: parity of the number of passes of its loop begun so far

vars == <<renderer, window, held, ret, crashed, futures_made, last_execute, ever_submitted,
          devices, created, capabilities, loop_pass>>

\* the variables written by Renderer::new only
startup == <<devices, created, capabilities>>

----------------------------------------------------------------------------
(* Bounds of the model *)

\* logical window sizes are <<w, WindowHeight>> with w in 1..MaxWidth
MaxWidth == 2
WindowHeight == 1
\* a swapchain holds 1..MaxImages images
MaxImages == 2
\* at most MaxObjects objects in the active scene
MaxObjects == 2
\* model matrices are named 1..MaxModel
MaxModel == 2
\* at most MaxFrames futures are created in one behaviour
MaxFrames == 2
\* at most MaxGen swapchain recreations succeed in one behaviour
MaxGen == 2
\* an instance enumerates at most MaxDevices adapters
MaxDevices == 5
\* a surface reports 1..MaxFormats supported formats
MaxFormats == 2

----------------------------------------------------------------------------
(* Values *)

\* Rust's Option: None is <<>>, Some(x) is <<x>>
None == <<>>
Some(x) == <<x>>
IsSome(o) == o # <<>>
Unwrap(o) == o[1]

Ok == [kind |-> "Ok", variant |-> "", cause |-> ""]
Err(variant, cause) == [kind |-> "Err", variant |-> variant, cause |-> cause]
Panic(message) == [kind |-> "Panic", variant |-> "", cause |-> message]

Event(ev, arg) == [ev |-> ev, arg |-> arg]

Sizes == {<<w, WindowHeight>> : w \in 1..MaxWidth}

\* the hidpi factors get_hidpi_factor() reports
HidpiFactors == {2}

\* a window is [inner_size |-> Option of a logical size, hidpi |-> factor]; get_inner_size()
\* is None once the window is closed
Windows == [inner_size : {None} \cup {Some(d) : d \in Sizes}, hidpi : HidpiFactors]

\* Mesh of the tests: create_mesh gives a mesh, set_texture attaches a loaded texture
Meshes == {[name |-> "test_mesh", texture_set |-> t] : t \in BOOLEAN}

\* what ObjectBuilder builds: model matrix, optional mesh, and the two flags (the flags
\* only feed the push constants, so one value of each is modelled)
Objects == [model : 1..MaxModel, mesh : {None} \cup {Some(m) : m \in Meshes},
            light_source : {FALSE}, uniform_scale : {TRUE}]

SeqsUpTo(S, n) == UNION {[1..k -> S] : k \in 0..n}

\* every scene of at most MaxObjects objects
Scenes == {[light_data |-> "light_data", objects |-> os] : os \in SeqsUpTo(Objects, MaxObjects)}

\* the scenes of the frame loop: one object with a textured mesh
LoopScenes == {sc \in Scenes : /\ Len(sc.objects) = 1
                               /\ sc.objects[1].model = 1
                               /\ IsSome(sc.objects[1].mesh)
                               /\ Unwrap(sc.objects[1].mesh).texture_set}

----------------------------------------------------------------------------
(* Free functions of renderer.rs *)

\* get_window_dimensions: the physical size, or a panic when the window is closed.
\* The result is an Option here; None stands for the panic.
get_window_dimensions(w) ==
    IF IsSome(w.inner_size)
    THEN Some(<<Unwrap(w.inner_size)[1] * w.hidpi, Unwrap(w.inner_size)[2] * w.hidpi>>)
    ELSE None

WindowClosedMessage == "window was closed when calling get_window_dimensions"

\* the render pass made once in Renderer::new
create_renderpass(format) ==
    [color |-> <<"Clear", "Store", format>>, depth |-> <<"Clear", "DontCare", "D16Unorm">>]

\* Vec<Arc<SwapchainImage>> of a swapchain: count images of one size
swapchain_images(gen, dims, count) ==
    [i \in 1..count |-> [swapchain |-> gen, index |-> i - 1, dimensions |-> dims]]

\* create_pipeline on success: the viewport is baked in from images[0]
create_pipeline(images, render_pass) ==
    [viewport |-> [origin |-> <<0, 0>>, dimensions |-> images[1].dimensions,
                   depth_range |-> <<0, 1>>],
     topology |-> "triangle_list",
     depth_stencil |-> "simple_depth",
     render_pass |-> render_pass]

\* framebuffers made for the first image only
create_framebuffers_first_image_only(images, render_pass) ==
    LET depth_buffer == [dimensions |-> images[1].dimensions, format |-> "D16Unorm"]
    IN  <<[render_pass |-> render_pass, color |-> images[1], depth |-> depth_buffer]>>

\* create_framebuffers on success: one framebuffer per image, one shared depth buffer
create_framebuffers(images, render_pass) ==
    LET depth_buffer == [dimensions |-> images[1].dimensions, format |-> "D16Unorm"]
    IN  [i \in 1..Len(images) |->
            [render_pass |-> render_pass, color |-> images[i], depth |-> depth_buffer]]

----------------------------------------------------------------------------
(* rank_devices *)

\* vulkano's PhysicalDeviceType
PhysicalDeviceTypes == {"DiscreteGpu", "VirtualGpu", "IntegratedGpu", "Cpu", "Other"}

\* every enumeration of at most MaxDevices adapters; an adapter is known by its place in
\* the enumeration and its type
Enumerations == SeqsUpTo(PhysicalDeviceTypes, MaxDevices)

\* a ranking that puts the integrated GPU first
device_score_integrated_first(ty) ==
    CASE ty = "IntegratedGpu" -> 4
      [] ty = "VirtualGpu" -> 3
      [] ty = "DiscreteGpu" -> 2
      [] ty = "Cpu" -> 1
      [] ty = "Other" -> 0

\* the match of lines 322-328
device_score(ty) ==
    CASE ty = "DiscreteGpu" -> 4
      [] ty = "VirtualGpu" -> 3
      [] ty = "IntegratedGpu" -> 2
      [] ty = "Cpu" -> 1
      [] ty = "Other" -> 0

\* a fold step that keeps the earlier of two elements unless the later one is greater
max_by_step_keeps_earlier(x, y) == IF y.score > x.score THEN y ELSE x

\* the fold step of Iterator::max_by with |x, y| x.1.cmp(&y.1): x is the best so far, y
\* the next element; x is kept only when it compares Greater
max_by_step(x, y) == IF x.score > y.score THEN x ELSE y

\* Iterator::max_by over pairs[k..], best being the maximum of pairs[1..k-1]
RECURSIVE max_by_from(_, _, _)
max_by_from(pairs, k, best) ==
    IF k > Len(pairs)
    THEN best
    ELSE max_by_from(pairs, k + 1, max_by_step(best, pairs[k]))

\* Iterator::max_by: None for an empty iterator
max_by(pairs) ==
    IF Len(pairs) = 0 THEN None ELSE Some(max_by_from(pairs, 2, pairs[1]))

\* a selection that unwraps the maximum: a panic on an empty enumeration
rank_devices_unwrapped(devs) ==
    LET scored == [i \in 1..Len(devs) |-> [device |-> i, score |-> device_score(devs[i])]]
        best == max_by(scored)
    IN  IF IsSome(best)
        THEN [result |-> Ok, physical_device |-> Some(Unwrap(best).device)]
        ELSE [result |-> Panic("unwrap on a None value"),
              physical_device |-> None]

\* rank_devices: [result, physical_device], the selected adapter being named by its
\* place in the enumeration
rank_devices(devs) ==
    LET scored == [i \in 1..Len(devs) |-> [device |-> i, score |-> device_score(devs[i])]]
        best == max_by(scored)
    IN  IF IsSome(best)
        THEN [result |-> Ok, physical_device |-> Some(Unwrap(best).device)]
        ELSE [result |-> Err("NoPhysicalDeviceError", "rank_devices"),
              physical_device |-> None]

----------------------------------------------------------------------------
(* Renderer::recreate_swapchain *)

\* Outcomes of the calls recreate_swapchain makes, in call order
RecreateOutcomes == {"ok", "swapchain_err", "pipeline_err", "depth_buffer_err", "framebuffer_err"}

\* a rebuild that waits for the frame in flight and empties the slot
recreate_swapchain_frame_dropped(r, w, env) ==
    LET window_dimensions == get_window_dimensions(w)
        t0 == <<Event("get_window_dimensions", 0)>>
    IN
    IF ~IsSome(window_dimensions)
    THEN [r |-> r, result |-> Panic(WindowClosedMessage), trace |-> t0]
    ELSE
    LET t1 == Append(t0, Event("recreate_with_dimension", r.swapchain.gen + 1)) IN
    IF env.recreate = "swapchain_err"
    THEN [r |-> r, result |-> Err("SwapchainCreationError", "recreate_with_dimension"), trace |-> t1]
    ELSE
    LET new_gen == r.swapchain.gen + 1
        new_swapchain == [gen |-> new_gen, dimensions |-> Unwrap(window_dimensions),
                          format |-> r.swapchain.format]
        new_images == swapchain_images(new_gen, Unwrap(window_dimensions), env.count)
        r1 == [r EXCEPT !.swapchain = new_swapchain, !.images = new_images,
                        !.previous_frame = None]
        t2 == Append(t1, Event("create_pipeline", new_gen))
    IN
    IF env.recreate = "pipeline_err"
    THEN [r |-> r1, result |-> Err("GraphicsPipelineCreationError", "create_pipeline"), trace |-> t2]
    ELSE
    LET r2 == [r1 EXCEPT !.pipeline = create_pipeline(r1.images, r1.render_pass)]
        t3 == Append(t2, Event("create_framebuffers", new_gen))
    IN
    IF env.recreate = "depth_buffer_err"
    THEN [r |-> r2, result |-> Panic("Couldn't create depth buffer!"), trace |-> t3]
    ELSE IF env.recreate = "framebuffer_err"
    THEN [r |-> r2, result |-> Err("FramebufferCreationError", "create_framebuffers"), trace |-> t3]
    ELSE
    LET r3 == [r2 EXCEPT !.framebuffers = create_framebuffers(r2.images, r2.render_pass),
                         !.recreate_swapchain = FALSE]
    IN  [r |-> r3, result |-> Ok, trace |-> t3]

\* [r, result, trace]: the renderer after the call, what it returned, the calls it made
recreate_swapchain(r, w, env) ==
    LET window_dimensions == get_window_dimensions(w)
        t0 == <<Event("get_window_dimensions", 0)>>
    IN
    IF ~IsSome(window_dimensions)
    THEN [r |-> r, result |-> Panic(WindowClosedMessage), trace |-> t0]
    ELSE
    LET t1 == Append(t0, Event("recreate_with_dimension", r.swapchain.gen + 1)) IN
    IF env.recreate = "swapchain_err"
    THEN [r |-> r, result |-> Err("SwapchainCreationError", "recreate_with_dimension"), trace |-> t1]
    ELSE
    LET new_gen == r.swapchain.gen + 1
        new_swapchain == [gen |-> new_gen, dimensions |-> Unwrap(window_dimensions),
                          format |-> r.swapchain.format]
        new_images == swapchain_images(new_gen, Unwrap(window_dimensions), env.count)
        r1 == [r EXCEPT !.swapchain = new_swapchain, !.images = new_images]
        t2 == Append(t1, Event("create_pipeline", new_gen))
    IN
    IF env.recreate = "pipeline_err"
    THEN [r |-> r1, result |-> Err("GraphicsPipelineCreationError", "create_pipeline"), trace |-> t2]
    ELSE
    LET r2 == [r1 EXCEPT !.pipeline = create_pipeline(r1.images, r1.render_pass)]
        t3 == Append(t2, Event("create_framebuffers", new_gen))
    IN
    IF env.recreate = "depth_buffer_err"
    THEN [r |-> r2, result |-> Panic("Couldn't create depth buffer!"), trace |-> t3]
    ELSE IF env.recreate = "framebuffer_err"
    THEN [r |-> r2, result |-> Err("FramebufferCreationError", "create_framebuffers"), trace |-> t3]
    ELSE
    LET r3 == [r2 EXCEPT !.framebuffers = create_framebuffers(r2.images, r2.render_pass),
                         !.recreate_swapchain = FALSE]
    IN  [r |-> r3, result |-> Ok, trace |-> t3]

----------------------------------------------------------------------------
(* Renderer::add_scene_commands *)

\* as u32 of a bool
bool_as_u32(b) == IF b THEN 1 ELSE 0

\* mesh.texture(): the texture object of the mesh, whether or not set_texture was called
mesh_texture(mesh) ==
    [image_buffer |-> <<mesh.name, "image", mesh.texture_set>>,
     sampler |-> <<mesh.name, "sampler", mesh.texture_set>>]

\* the two buffers added in the other order
descriptor_set_buffers_swapped(transformation_subbuffer, light_subbuffer) ==
    << [binding |-> "buffer", resource |-> [light |-> light_subbuffer]],
       [binding |-> "buffer", resource |-> [transformation |-> transformation_subbuffer]] >>

\* PersistentDescriptorSet::start(pipeline, 0).add_buffer(..).add_buffer(..)
descriptor_set_buffers(transformation_subbuffer, light_subbuffer) ==
    << [binding |-> "buffer", resource |-> [transformation |-> transformation_subbuffer]],
       [binding |-> "buffer", resource |-> [light |-> light_subbuffer]] >>

\* a sampled image added only for a mesh on which set_texture was called
descriptor_set_for_mesh_if_textured(descriptor_set, mesh) ==
    IF mesh.texture_set
    THEN Append(descriptor_set,
                [binding |-> "sampled_image",
                 resource |-> [image |-> <<mesh.name, "image", TRUE>>,
                               sampler |-> <<mesh.name, "sampler", TRUE>>]])
    ELSE descriptor_set

\* .add_sampled_image(mesh_texture.image_buffer(), mesh_texture.sampler()).build()
descriptor_set_for_mesh(descriptor_set, mesh) ==
    Append(descriptor_set,
           [binding |-> "sampled_image",
            resource |-> [image |-> mesh_texture(mesh).image_buffer,
                          sampler |-> mesh_texture(mesh).sampler]])

\* a clear colour of transparent black
begin_render_pass_command_transparent(framebuffer) ==
    [cmd |-> "begin_render_pass",
     args |-> [framebuffer |-> framebuffer, secondary |-> FALSE,
               clear_values |-> << <<0, 0, 0, 0>>, <<1>> >>]]

\* the begin_render_pass command of line 177
begin_render_pass_command(framebuffer) ==
    [cmd |-> "begin_render_pass",
     args |-> [framebuffer |-> framebuffer, secondary |-> FALSE,
               clear_values |-> << <<0, 0, 0, 1>>, <<1>> >>]]

draw_indexed_command(pipeline, mesh, descriptor_set, push_constants) ==
    [cmd |-> "draw_indexed",
     args |-> [pipeline |-> pipeline, dynamic_state |-> "none",
               vertex_buffer |-> <<mesh.name, "vertex_buffer">>,
               index_buffer |-> <<mesh.name, "index_buffer">>,
               descriptor_set |-> descriptor_set,
               push_constants |-> push_constants]]

\* a mesh for every object: a plain one where the object has none
object_mesh_or_plain(object) ==
    IF IsSome(object.mesh) THEN object.mesh
    ELSE Some([name |-> "test_mesh", texture_set |-> FALSE])

\* object.mesh() of line 206
object_mesh(object) == object.mesh

\* where recording one object can fail, in code order; the last two need a mesh
ObjectStages == <<"subbuffer", "add_buffer", "add_sampled_image", "draw_indexed">>

FailsAt(env, k, stage) == env.encode_fail = stage /\ env.encode_at = k

EncodeError(stage) ==
    CASE stage = "begin_render_pass" -> Err("BeginRenderPassError", stage)
      [] stage = "subbuffer" -> Err("DeviceMemoryAllocError", stage)
      [] stage = "add_buffer" -> Err("PersistentDescriptorSetError", stage)
      [] stage = "add_sampled_image" -> Err("PersistentDescriptorSetError", stage)
      [] stage = "draw_indexed" -> Err("DrawIndexedError", stage)

\* the body of the for loop of lines 191-221 for object k, on the accumulated
\* [cb, uniform_manager, trace, result]
encode_object(acc, object, k, camera, pipeline, env) ==
    LET data == [model |-> object.model]   \* transformation_uniform_data.model
        um1 == [acc.uniform_manager EXCEPT !.transformation = Some(data)]
        t1 == Append(acc.trace, Event("update_transformation_data", object.model))
        a1 == [acc EXCEPT !.uniform_manager = um1, !.trace = t1]
    IN
    IF FailsAt(env, k, "subbuffer")
    THEN [a1 EXCEPT !.result = EncodeError("subbuffer")]
    ELSE
    LET transformation_subbuffer == Unwrap(um1.transformation)
        light_subbuffer == Unwrap(um1.light)
    IN
    IF FailsAt(env, k, "add_buffer")
    THEN [a1 EXCEPT !.result = EncodeError("add_buffer")]
    ELSE
    LET descriptor_set == descriptor_set_buffers(transformation_subbuffer, light_subbuffer)
        push_constants == [light_source |-> bool_as_u32(object.light_source),
                           uniform_scale |-> bool_as_u32(object.uniform_scale)]
    IN
    IF ~IsSome(object_mesh(object))
    THEN a1
    ELSE
    IF FailsAt(env, k, "add_sampled_image")
    THEN [a1 EXCEPT !.result = EncodeError("add_sampled_image")]
    ELSE
    LET full_set == descriptor_set_for_mesh(descriptor_set, Unwrap(object_mesh(object))) IN
    IF FailsAt(env, k, "draw_indexed")
    THEN [a1 EXCEPT !.result = EncodeError("draw_indexed")]
    ELSE [a1 EXCEPT
            !.cb = Append(acc.cb, draw_indexed_command(pipeline, Unwrap(object_mesh(object)),
                                                       full_set, push_constants)),
            !.trace = Append(t1, Event("draw_indexed", object.model))]

\* a loop that walks the objects from the last to the first
RECURSIVE encode_objects_reversed(_, _, _, _, _, _)
encode_objects_reversed(acc, objects, k, camera, pipeline, env) ==
    IF k > Len(objects) \/ acc.result # Ok
    THEN acc
    ELSE encode_objects_reversed(
            encode_object(acc, objects[Len(objects) + 1 - k], Len(objects) + 1 - k,
                          camera, pipeline, env),
            objects, k + 1, camera, pipeline, env)

\* the for loop of line 191: objects k..Len(objects) in order, stopping at the first error
RECURSIVE encode_objects(_, _, _, _, _, _)
encode_objects(acc, objects, k, camera, pipeline, env) ==
    IF k > Len(objects) \/ acc.result # Ok
    THEN acc
    ELSE encode_objects(encode_object(acc, objects[k], k, camera, pipeline, env),
                        objects, k + 1, camera, pipeline, env)

\* [r, cb, result, trace]
add_scene_commands(r, command_buffer, image_num, sc, w, env) ==
    IF image_num >= Len(r.framebuffers)
    THEN [r |-> r, cb |-> command_buffer, trace |-> <<>>,
          result |-> Panic("index out of bounds")]
    ELSE
    LET t0 == <<Event("begin_render_pass", image_num)>> IN
    IF env.encode_fail = "begin_render_pass"
    THEN [r |-> r, cb |-> command_buffer, trace |-> t0,
          result |-> EncodeError("begin_render_pass")]
    ELSE
    LET cb1 == Append(command_buffer, begin_render_pass_command(r.framebuffers[image_num + 1])) IN
    IF ~IsSome(sc)
    THEN [r |-> r, cb |-> cb1, trace |-> t0, result |-> Ok]
    ELSE
    LET window_dimensions == get_window_dimensions(w) IN
    IF ~IsSome(window_dimensions)
    THEN [r |-> r, cb |-> cb1, trace |-> Append(t0, Event("get_window_dimensions", 0)),
          result |-> Panic(WindowClosedMessage)]
    ELSE
    LET camera == Unwrap(window_dimensions)
        um0 == [r.uniform_manager EXCEPT !.light = Some(Unwrap(sc).light_data)]
        acc0 == [cb |-> cb1, uniform_manager |-> um0, result |-> Ok,
                 trace |-> t0 \o <<Event("get_window_dimensions", 0), Event("update_light_data", 0)>>]
        acc == encode_objects(acc0, Unwrap(sc).objects, 1, camera, r.pipeline, env)
    IN  [r |-> [r EXCEPT !.uniform_manager = acc.uniform_manager],
         cb |-> acc.cb, trace |-> acc.trace, result |-> acc.result]

----------------------------------------------------------------------------
(* Renderer::render_scene *)

\* results of swapchain::acquire_next_image other than Ok
AcquireOutcomes == {"ok", "OutOfDate", "SurfaceLost"}

\* render_scene that goes straight to the acquisition, flag or no flag
recreate_if_flagged_skipped(r, w, env) == [r |-> r, result |-> Ok, trace |-> <<>>]

\* a rebuild that leaves the flag as it found it
recreate_if_flagged_flag_kept(r, w, env) ==
    LET rec == IF r.recreate_swapchain
               THEN recreate_swapchain(r, w, env)
               ELSE [r |-> r, result |-> Ok, trace |-> <<>>]
    IN  [rec EXCEPT !.r = [@ EXCEPT !.recreate_swapchain = r.recreate_swapchain]]

\* lines 126-128: the rebuild when the flag is set, nothing otherwise
recreate_if_flagged(r, w, env) ==
    IF r.recreate_swapchain
    THEN recreate_swapchain(r, w, env)
    ELSE [r |-> r, result |-> Ok, trace |-> <<>>]

\* an OutOfDate arm that reports the error and forgets to raise the flag
acquire_failed_flag_forgotten(r, cause) == [r |-> r, result |-> Err("AcquireError", cause)]

\* Err arms that raise the flag whatever the error is
acquire_failed_flag_always(r, cause) ==
    [r |-> [r EXCEPT !.recreate_swapchain = TRUE], result |-> Err("AcquireError", cause)]

\* the Err arms of the match of lines 130-137: [r, result]
acquire_failed(r, cause) ==
    IF cause = "OutOfDate"
    THEN [r |-> [r EXCEPT !.recreate_swapchain = TRUE], result |-> Err("AcquireError", "OutOfDate")]
    ELSE [r |-> r, result |-> Err("AcquireError", cause)]

\* [r, result, trace, out]: out is the Ok tuple (image_num, acquire_future, command_buffer)
render_scene(r, command_buffer, sc, w, env) ==
    LET t0 == IF IsSome(r.previous_frame) THEN <<Event("cleanup_finished", 0)>> ELSE <<>>
        no_out == [image_num |-> 0, acquire_future |-> None, cb |-> <<>>]
        rec == recreate_if_flagged(r, w, env)
        t1 == t0 \o rec.trace
    IN
    IF rec.result # Ok
    THEN [r |-> rec.r, result |-> rec.result, trace |-> t1, out |-> no_out]
    ELSE
    LET r1 == rec.r
        t2 == Append(t1, Event("acquire_next_image", r1.swapchain.gen))
    IN
    IF env.acquire # "ok"
    THEN [r |-> acquire_failed(r1, env.acquire).r, result |-> acquire_failed(r1, env.acquire).result,
          trace |-> t2, out |-> no_out]
    ELSE
    LET image_num == env.image_num
        acquire_future == Some([image_num |-> image_num])
        enc == add_scene_commands(r1, command_buffer, image_num, sc, w, env)
        t3 == t2 \o enc.trace
    IN
    IF enc.result # Ok
    THEN [r |-> enc.r, result |-> enc.result, trace |-> t3, out |-> no_out]
    ELSE [r |-> enc.r, result |-> Ok, trace |-> t3,
          out |-> [image_num |-> image_num, acquire_future |-> acquire_future, cb |-> enc.cb]]

----------------------------------------------------------------------------
(* Renderer::execute_command_buffer *)

ExecuteOutcomes == {"ok", "end_render_pass_err", "build_err", "execute_err",
                    "flush_out_of_date", "flush_err"}

end_render_pass_command == [cmd |-> "end_render_pass", args |-> [none |-> TRUE]]

\* line 146: command_buffer.end_render_pass()?.build()? : [result, cb, trace]
finish_command_buffer(command_buffer, env) ==
    LET t0 == <<Event("end_render_pass", 0)>> IN
    IF env.execute = "end_render_pass_err"
    THEN [result |-> Err("AutoCommandBufferBuilderContextError", "end_render_pass"),
          cb |-> command_buffer, trace |-> t0]
    ELSE IF env.execute = "build_err"
    THEN [result |-> Err("BuildError", "build"),
          cb |-> Append(command_buffer, end_render_pass_command),
          trace |-> Append(t0, Event("build", 0))]
    ELSE [result |-> Ok, cb |-> Append(command_buffer, end_render_pass_command),
          trace |-> Append(t0, Event("build", 0))]

\* reading the slot without emptying it (as_ref/clone in place of take)
take_previous_frame_peeked(r) == r

\* line 148: self.previous_frame.take() leaves None in the slot
take_previous_frame(r) == [r EXCEPT !.previous_frame = None]

\* a chain that always starts from the future made last, taken from the slot or not
chain_future_stale(id, taken, acquire_future, image_num) ==
    [id |-> id, previous |-> id - 1, joined |-> acquire_future, present |-> image_num]

\* a chain that leaves the acquire future out
chain_future_unjoined(id, taken, acquire_future, image_num) ==
    [id |-> id, previous |-> IF IsSome(taken) THEN Unwrap(taken).id ELSE 0,
     joined |-> None, present |-> image_num]

\* the future of lines 148-153: previous_frame (or sync::now) joined with the acquire
\* future, then execute, present, fence and flush. previous is 0 for sync::now.
chain_future(id, taken, acquire_future, image_num) ==
    [id |-> id,
     previous |-> IF IsSome(taken) THEN Unwrap(taken).id ELSE 0,
     joined |-> acquire_future,
     present |-> image_num]

\* an OutOfDate arm that reports the error and forgets to raise the flag
flush_failed_flag_forgotten(r, cause) == [r |-> r, result |-> Err("FlushError", cause)]

\* the Err arms of the match of lines 155-167: [r, result]
flush_failed(r, cause) ==
    IF cause = "OutOfDate"
    THEN [r |-> [r EXCEPT !.recreate_swapchain = TRUE], result |-> Err("FlushError", "OutOfDate")]
    ELSE [r |-> r, result |-> Err("FlushError", cause)]

\* an execute_command_buffer that empties the slot before it finishes the command buffer
execute_command_buffer_take_first(r, image_num, acquire_future, command_buffer, env, id) ==
    LET kept == IF IsSome(r.previous_frame) THEN "kept" ELSE "none"
        gone == IF IsSome(r.previous_frame) THEN "dropped" ELSE "none"
        fin == finish_command_buffer(command_buffer, env)
    IN
    IF fin.result # Ok
    THEN [r |-> take_previous_frame(r), result |-> fin.result, trace |-> fin.trace,
          fate |-> gone, submitted |-> <<>>]
    ELSE
    LET taken == r.previous_frame
        r1 == take_previous_frame(r)
        t2 == fin.trace \o <<Event("take", 0)>>
                 \o (IF IsSome(taken) THEN <<>> ELSE <<Event("now", 0)>>)
                 \o <<Event("join", 0), Event("then_execute", 0)>>
    IN
    IF env.execute = "execute_err"
    THEN [r |-> r1, result |-> Err("CommandBufferExecError", "then_execute"),
          trace |-> t2, fate |-> gone, submitted |-> <<>>]
    ELSE
    LET t3 == t2 \o <<Event("then_swapchain_present", image_num),
                      Event("then_signal_fence_and_flush", 0)>>
    IN
    IF env.execute = "flush_out_of_date"
    THEN [r |-> flush_failed(r1, "OutOfDate").r, result |-> flush_failed(r1, "OutOfDate").result,
          trace |-> t3, fate |-> gone, submitted |-> <<>>]
    ELSE IF env.execute = "flush_err"
    THEN [r |-> flush_failed(r1, "DeviceLost").r, result |-> flush_failed(r1, "DeviceLost").result,
          trace |-> t3, fate |-> gone, submitted |-> <<>>]
    ELSE [r |-> [r1 EXCEPT !.previous_frame =
                    Some(chain_future(id, taken, acquire_future, image_num))],
          result |-> Ok, trace |-> t3,
          fate |-> IF IsSome(taken) THEN "joined" ELSE "none",
          submitted |-> fin.cb]

\* [r, result, trace, fate, submitted]: fate is what became of the future that was in
\* previous_frame at entry: "kept" (still in the slot), "joined" (consumed into the new
\* future, now in the slot), "dropped" (taken and destroyed with the failed chain),
\* "none" (the slot was empty). id names the future a successful flush creates.
execute_command_buffer(r, image_num, acquire_future, command_buffer, env, id) ==
    LET kept == IF IsSome(r.previous_frame) THEN "kept" ELSE "none"
        gone == IF IsSome(r.previous_frame) THEN "dropped" ELSE "none"
        fin == finish_command_buffer(command_buffer, env)
    IN
    IF fin.result # Ok
    THEN [r |-> r, result |-> fin.result, trace |-> fin.trace, fate |-> kept, submitted |-> <<>>]
    ELSE
    LET taken == r.previous_frame
        r1 == take_previous_frame(r)
        t2 == fin.trace \o <<Event("take", 0)>>
                 \o (IF IsSome(taken) THEN <<>> ELSE <<Event("now", 0)>>)
                 \o <<Event("join", 0), Event("then_execute", 0)>>
    IN
    IF env.execute = "execute_err"
    THEN [r |-> r1, result |-> Err("CommandBufferExecError", "then_execute"),
          trace |-> t2, fate |-> gone, submitted |-> <<>>]
    ELSE
    LET t3 == t2 \o <<Event("then_swapchain_present", image_num),
                      Event("then_signal_fence_and_flush", 0)>>
    IN
    IF env.execute = "flush_out_of_date"
    THEN [r |-> flush_failed(r1, "OutOfDate").r, result |-> flush_failed(r1, "OutOfDate").result,
          trace |-> t3, fate |-> gone, submitted |-> <<>>]
    ELSE IF env.execute = "flush_err"
    THEN [r |-> flush_failed(r1, "DeviceLost").r, result |-> flush_failed(r1, "DeviceLost").result,
          trace |-> t3, fate |-> gone, submitted |-> <<>>]
    ELSE [r |-> [r1 EXCEPT !.previous_frame =
                    Some(chain_future(id, taken, acquire_future, image_num))],
          result |-> Ok, trace |-> t3,
          fate |-> IF IsSome(taken) THEN "joined" ELSE "none",
          submitted |-> fin.cb]

----------------------------------------------------------------------------
(* create_swapchain *)

\* the formats a surface can report
Formats == {"format0", "format1"}

\* Capabilities of a surface: a surface supports at least one format and always Fifo
SurfaceCapabilities ==
    [min_image_count : 1..MaxImages,
     supported_usage_flags : {"supported_usage_flags"},
     supported_formats : SeqsUpTo(Formats, MaxFormats) \ {<<>>},
     current_extent : {None} \cup {Some(d) : d \in Sizes},
     present_modes : [fifo : {TRUE}, mailbox : BOOLEAN]]

\* a swapchain that is always presented in Fifo mode
present_mode_fifo_always(caps) == "Fifo"

\* lines 389-397
present_mode(caps) == IF caps.present_modes.mailbox THEN "Mailbox" ELSE "Fifo"

\* lines 381-387: an Option, None standing for the panic of get_window_dimensions
initial_dimensions(caps, w) ==
    IF IsSome(caps.current_extent) THEN caps.current_extent ELSE get_window_dimensions(w)

\* the arguments of Swapchain::new, lines 399-413
swapchain_request(caps, w) ==
    [num_images |-> caps.min_image_count,
     format |-> caps.supported_formats[1],
     dimensions |-> Unwrap(initial_dimensions(caps, w)),
     layers |-> 1,
     usage |-> caps.supported_usage_flags,
     transform |-> "Identity",
     alpha |-> "Opaque",
     mode |-> present_mode(caps),
     clipped |-> TRUE,
     old_swapchain |-> None]

\* [result, request]: request is what Swapchain::new was asked for, if it was called
create_swapchain(caps, w, env) ==
    IF env.new = "capabilities_err"
    THEN [result |-> Err("RendererCreationError", "capabilities"), request |-> None]
    ELSE IF ~IsSome(initial_dimensions(caps, w))
    THEN [result |-> Panic(WindowClosedMessage), request |-> None]
    ELSE IF env.new = "swapchain_err"
    THEN [result |-> Err("RendererCreationError", "create_swapchain"),
          request |-> Some(swapchain_request(caps, w))]
    ELSE [result |-> Ok, request |-> Some(swapchain_request(caps, w))]

----------------------------------------------------------------------------
(* State after construction *)

\* Renderer::new on success, for a swapchain of extent dims and the given format that
\* got count images: lines 88-112
new_renderer(dims, format, count) ==
    LET swapchain == [gen |-> 0, dimensions |-> dims, format |-> format]
        images == swapchain_images(0, dims, count)
        render_pass == create_renderpass(swapchain.format)
    IN  [surface |-> [window |-> "window"],
         device |-> [physical_device |-> "physical_device"],
         queues |-> [graphics |-> "graphics_queue", present |-> "present_queue"],
         swapchain |-> swapchain,
         images |-> images,
         uniform_manager |-> [transformation |-> None, light |-> None],
         render_pass |-> render_pass,
         pipeline |-> create_pipeline(images, render_pass),
         framebuffers |-> create_framebuffers(images, render_pass),
         recreate_swapchain |-> FALSE,
         previous_frame |-> None]

NothingHeld == [stage |-> "none", cb |-> <<>>, image_num |-> 0, acquire_future |-> None,
                scene |-> None]

\* pipeline and framebuffers are the ones built from the current swapchain images
BuiltFromCurrentImages(r) ==
    /\ r.pipeline.viewport.dimensions = r.swapchain.dimensions
    /\ \A i \in 1..Len(r.images) : r.images[i].dimensions = r.swapchain.dimensions
    /\ Len(r.framebuffers) = Len(r.images)
    /\ \A i \in 1..Len(r.images) :
          /\ r.framebuffers[i].color = r.images[i]
          /\ r.framebuffers[i].depth.dimensions = r.swapchain.dimensions

\* what ret keeps of the renderer as it was when the call was entered
Entry(r) == [recreate_swapchain |-> r.recreate_swapchain, previous_frame |-> r.previous_frame,
             gen |-> r.swapchain.gen, uniform_manager |-> r.uniform_manager,
             built |-> BuiltFromCurrentImages(r)]

\* no renderer call has just returned
Idle == [op |-> "none", result |-> Ok, trace |-> <<>>, env |-> [none |-> TRUE],
         env_ok |-> TRUE, entry |-> [none |-> TRUE], image_num |-> 0,
         fate |-> "none", submitted |-> <<>>, scene |-> None]

\* the outcomes of the fallible calls of Renderer::new, in call order
NewOutcomes == {"ok", "instance_err", "surface_err", "device_err", "capabilities_err",
                "swapchain_err",
                "renderpass_err", "pipeline_err", "depth_buffer_err", "framebuffer_err"}

\* no Renderer value
NoRenderer == [none |-> TRUE]

\* Renderer::new, lines 71-113: [result, physical_device, swapchain, renderer]; each `?`
\* returns the error of the call that failed; swapchain is what Swapchain::new was asked for
new(devs, caps, w, count, env) ==
    LET failed(cause, pd) == [result |-> Err("RendererCreationError", cause),
                              physical_device |-> pd, swapchain |-> None,
                              renderer |-> NoRenderer]
    IN
    IF env.new = "instance_err" THEN failed("create_new_instance", None)
    ELSE
    LET ranked == rank_devices(devs) IN
    IF ranked.result # Ok
    THEN [result |-> ranked.result, physical_device |-> None, swapchain |-> None,
          renderer |-> NoRenderer]
    ELSE
    LET pd == ranked.physical_device IN
    IF env.new = "surface_err" THEN failed("build_vk_surface", pd)
    ELSE IF env.new = "device_err" THEN failed("create_logical_device", pd)
    ELSE
    LET sw == create_swapchain(caps, w, env) IN
    IF sw.result # Ok
    THEN [result |-> sw.result, physical_device |-> pd, swapchain |-> sw.request,
          renderer |-> NoRenderer]
    ELSE
    LET made(result, r) == [result |-> result, physical_device |-> pd,
                            swapchain |-> sw.request, renderer |-> r]
        request == Unwrap(sw.request)
    IN
    IF env.new = "renderpass_err"
    THEN made(Err("RendererCreationError", "create_renderpass"), NoRenderer)
    ELSE IF env.new = "pipeline_err"
    THEN made(Err("RendererCreationError", "create_pipeline"), NoRenderer)
    ELSE IF env.new = "depth_buffer_err"
    THEN made(Panic("Couldn't create depth buffer!"), NoRenderer)
    ELSE IF env.new = "framebuffer_err"
    THEN made(Err("RendererCreationError", "create_framebuffers"), NoRenderer)
    ELSE made(Ok, new_renderer(request.dimensions, request.format, count))

\* Renderer::new has not been called
NotCreated == [called |-> FALSE, result |-> Ok, physical_device |-> None, swapchain |-> None]

\* the adapters of the machine the frame loop runs on
LoopDevices == <<"IntegratedGpu", "DiscreteGpu">>

\* the surface of the machine the frame loop runs on: its extent is the window's
LoopCapabilities ==
    [min_image_count |-> 1, supported_usage_flags |-> "supported_usage_flags",
     supported_formats |-> <<"format0">>, current_extent |-> None,
     present_modes |-> [fifo |-> TRUE, mailbox |-> FALSE]]

Init ==
    /\ window \in {w \in Windows : IsSome(w.inner_size)}
    /\ devices = LoopDevices
    /\ capabilities = LoopCapabilities
    /\ \E count \in capabilities.min_image_count..MaxImages :
          LET res == new(devices, capabilities, window, count, [new |-> "ok"]) IN
          /\ renderer = res.renderer
          /\ created = [called |-> TRUE, result |-> res.result,
                        physical_device |-> res.physical_device,
                        swapchain |-> res.swapchain]
    /\ held = NothingHeld
    /\ ret = Idle
    /\ crashed = FALSE
    /\ futures_made = 0
    /\ last_execute = "none"
    /\ ever_submitted = FALSE
    /\ loop_pass = 0

----------------------------------------------------------------------------
(* Construction: Renderer::new on every enumeration of adapters *)

InitNew ==
    /\ window \in {w \in Windows : IsSome(w.inner_size)}
    /\ devices \in Enumerations
    /\ capabilities = LoopCapabilities
    /\ renderer = NoRenderer
    /\ created = NotCreated
    /\ held = NothingHeld
    /\ ret = Idle
    /\ crashed = FALSE
    /\ futures_made = 0
    /\ last_execute = "none"
    /\ ever_submitted = FALSE
    /\ loop_pass = 0

\* Renderer::new, for the outcomes of the calls it makes and the number of images the
\* swapchain gets
New ==
    /\ ~created.called
    /\ \E outcome \in NewOutcomes :
       \E count \in (IF outcome = "ok" THEN capabilities.min_image_count..MaxImages
                      ELSE {capabilities.min_image_count}) :
          LET res == new(devices, capabilities, window, count, [new |-> outcome]) IN
          /\ renderer' = res.renderer
          /\ created' = [called |-> TRUE, result |-> res.result,
                         physical_device |-> res.physical_device,
                         swapchain |-> res.swapchain]
          /\ crashed' = (res.result.kind = "Panic")
          /\ ret' = [Idle EXCEPT !.op = "new", !.result = res.result,
                                 !.env = [new |-> outcome], !.env_ok = (outcome = "ok")]
    /\ UNCHANGED <<window, held, futures_made, last_execute, ever_submitted, devices,
                   capabilities, loop_pass>>

NextNew == New

SpecNew == InitNew /\ [][NextNew]_vars

\* Renderer::new on every surface, for the adapters of LoopDevices
InitSwapchain ==
    /\ window \in {w \in Windows : IsSome(w.inner_size)}
    /\ devices = LoopDevices
    /\ capabilities \in SurfaceCapabilities
    /\ renderer = NoRenderer
    /\ created = NotCreated
    /\ held = NothingHeld
    /\ ret = Idle
    /\ crashed = FALSE
    /\ futures_made = 0
    /\ last_execute = "none"
    /\ ever_submitted = FALSE
    /\ loop_pass = 0

SpecSwapchain == InitSwapchain /\ [][NextNew]_vars

----------------------------------------------------------------------------
(* The window and the asset manager *)

\* the user resizes the window (Engine::run learns of it through pending events)
Resize ==
    /\ ~crashed
    /\ IsSome(window.inner_size)
    /\ \E d \in Sizes : d # Unwrap(window.inner_size) /\ window' = [window EXCEPT !.inner_size = Some(d)]
    /\ ret' = Idle
    /\ UNCHANGED <<renderer, held, crashed, futures_made, last_execute, ever_submitted>>
    /\ UNCHANGED <<startup, loop_pass>>

\* the window is closed: get_inner_size() is None from now on
CloseWindow ==
    /\ ~crashed
    /\ IsSome(window.inner_size)
    /\ window' = [window EXCEPT !.inner_size = None]
    /\ ret' = Idle
    /\ UNCHANGED <<renderer, held, crashed, futures_made, last_execute, ever_submitted>>
    /\ UNCHANGED <<startup, loop_pass>>

----------------------------------------------------------------------------
(* The renderer's entry points *)

\* Renderer::force_recreate_swapchain
ForceRecreateSwapchain ==
    /\ ~crashed
    /\ renderer' = [renderer EXCEPT !.recreate_swapchain = TRUE]
    /\ ret' = [Idle EXCEPT !.op = "force_recreate_swapchain",
                           !.entry = Entry(renderer)]
    /\ UNCHANGED <<window, held, crashed, futures_made, last_execute, ever_submitted>>
    /\ UNCHANGED <<startup, loop_pass>>

\* Renderer::create_command_buffer: the caller now holds an empty builder
CreateCommandBuffer ==
    /\ ~crashed
    /\ held' = [NothingHeld EXCEPT !.stage = "builder"]
    /\ ret' = [Idle EXCEPT !.op = "create_command_buffer",
                           !.entry = Entry(renderer)]
    /\ UNCHANGED <<renderer, window, crashed, futures_made, last_execute, ever_submitted>>
    /\ UNCHANGED <<startup, loop_pass>>

\* the places where recording the scene sc can fail
EncodeFaults(sc) ==
    {<<"", 0>>, <<"begin_render_pass", 0>>}
    \cup (IF IsSome(sc)
          THEN {<<ObjectStages[i], k>> : i \in 1..2, k \in 1..Len(Unwrap(sc).objects)}
               \cup {<<ObjectStages[i], k>> : i \in 3..4,
                       k \in {j \in 1..Len(Unwrap(sc).objects) : IsSome(Unwrap(sc).objects[j].mesh)}}
          ELSE {})

\* one environment per distinguishable run of render_scene from renderer state r with
\* window w: an outcome is drawn only for a call that is reached, the others stay "ok"
RenderEnvs(r, w, sc) ==
    LET env(rc, n, a, i, f) ==
            [recreate |-> rc, count |-> n, acquire |-> a, image_num |-> i,
             encode_fail |-> f[1], encode_at |-> f[2]]
        none == <<"", 0>>
        recreates == r.recreate_swapchain /\ IsSome(w.inner_size)
        counts == IF recreates THEN 1..MaxImages ELSE {Len(r.images)}
    IN  (IF recreates
         THEN {env("swapchain_err", Len(r.images), "ok", 0, none)}
              \cup {env(rc, n, "ok", 0, none) :
                      rc \in {"pipeline_err", "depth_buffer_err", "framebuffer_err"},
                      n \in counts}
         ELSE {})
        \cup {env("ok", n, a, 0, none) : n \in counts, a \in AcquireOutcomes \ {"ok"}}
        \cup UNION {{env("ok", n, "ok", i, f) : i \in 0..(n - 1), f \in EncodeFaults(sc)} :
                      n \in counts}

RenderEnvOk(env) == env.recreate = "ok" /\ env.acquire = "ok" /\ env.encode_fail = ""

\* Renderer::render_scene with the builder the caller holds, for the active scene sc of
\* the asset manager passed in and the outcomes env of the calls it makes
RenderSceneWith(sc, env) ==
    LET res == render_scene(renderer, held.cb, sc, window, env) IN
    /\ ~crashed
    /\ held.stage = "builder"
    /\ env.image_num < Len(res.r.images)
    /\ res.r.swapchain.gen <= MaxGen
    /\ renderer' = res.r
    /\ crashed' = (res.result.kind = "Panic")
    /\ held' = IF res.result = Ok
               THEN [stage |-> "rendered", cb |-> res.out.cb, image_num |-> res.out.image_num,
                     acquire_future |-> res.out.acquire_future, scene |-> sc]
               ELSE NothingHeld
    /\ ret' = [Idle EXCEPT !.op = "render_scene", !.result = res.result,
                           !.trace = res.trace, !.env = env, !.env_ok = RenderEnvOk(env),
                           !.entry = Entry(renderer),
                           !.scene = sc]
    /\ UNCHANGED <<window, futures_made, last_execute, ever_submitted>>
    /\ UNCHANGED <<startup, loop_pass>>

\* the frame loop: any outcome of any call, scenes of LoopScenes
RenderScene ==
    \E sc \in {None} \cup {Some(x) : x \in LoopScenes} :
        \E env \in RenderEnvs(renderer, window, sc) : RenderSceneWith(sc, env)

\* Renderer::execute_command_buffer with the tuple render_scene returned, for the
\* outcome of the calls it makes
ExecuteCommandBufferWith(outcome) ==
    LET env == [execute |-> outcome]
        res == execute_command_buffer(renderer, held.image_num, held.acquire_future,
                                      held.cb, env, futures_made + 1)
    IN
    /\ ~crashed
    /\ held.stage = "rendered"
    /\ futures_made < MaxFrames
    /\ renderer' = res.r
    /\ futures_made' = IF res.result = Ok THEN futures_made + 1 ELSE futures_made
    /\ last_execute' = IF res.result = Ok THEN "ok" ELSE "failed"
    /\ ever_submitted' = (ever_submitted \/ res.result = Ok)
    /\ ret' = [Idle EXCEPT !.op = "execute_command_buffer", !.result = res.result,
                           !.trace = res.trace, !.env = env, !.env_ok = (outcome = "ok"),
                           !.image_num = held.image_num,
                           !.entry = Entry(renderer),
                           !.fate = res.fate, !.submitted = res.submitted,
                           !.scene = held.scene]
    /\ held' = NothingHeld
    /\ UNCHANGED <<window, crashed>>
    /\ UNCHANGED <<startup, loop_pass>>

ExecuteCommandBuffer == \E outcome \in ExecuteOutcomes : ExecuteCommandBufferWith(outcome)

Next ==
    \/ Resize
    \/ CloseWindow
    \/ ForceRecreateSwapchain
    \/ CreateCommandBuffer
    \/ RenderScene
    \/ ExecuteCommandBuffer

Spec == Init /\ [][Next]_vars

----------------------------------------------------------------------------
(* The scene command encoder on every scene of Scenes: the window stays as created and
   the swapchain is never reported out of date, so that only the scene, the acquired
   image and the recording failures vary *)

RenderSceneEncode ==
    \E sc \in {None} \cup {Some(x) : x \in Scenes} :
        \E env \in {e \in RenderEnvs(renderer, window, sc) : e.recreate = "ok" /\ e.acquire = "ok"} :
            RenderSceneWith(sc, env)

ExecuteCommandBufferEncode ==
    \E outcome \in ExecuteOutcomes \ {"flush_out_of_date"} : ExecuteCommandBufferWith(outcome)

NextEncode ==
    \/ CreateCommandBuffer
    \/ RenderSceneEncode
    \/ ExecuteCommandBufferEncode

SpecEncode == Init /\ [][NextEncode]_vars

----------------------------------------------------------------------------
(* Engine::run: the frame loop of ketch-engine *)

\* Renderer::render as Engine::run calls it: render_scene on a new command buffer
render(r, sc, w, env) == render_scene(r, <<>>, sc, w, env)

\* the outcomes of the calls of one render; a rebuilt swapchain gets as many images as
\* the one it replaces
EngineRenderEnvs(r, w, sc) == {e \in RenderEnvs(r, w, sc) : e.count = Len(r.images)}

\* Swapchains are told apart by their generation, and a loop that never ends makes ever
\* new ones. Between two passes the renderer holds at most two: the one its framebuffers
\* were made for and the current one. They are renumbered 0 and 1 (0 when they are the
\* same), which keeps every comparison of generations.
renumbered(r) ==
    LET old == r.framebuffers[1].color.swapchain
        rank(g) == IF g = old THEN 0 ELSE 1
    IN  [r EXCEPT
            !.swapchain = [@ EXCEPT !.gen = rank(@)],
            !.images = [i \in 1..Len(r.images) |->
                           [r.images[i] EXCEPT !.swapchain = rank(@)]],
            !.framebuffers = [i \in 1..Len(r.framebuffers) |->
                                 [r.framebuffers[i] EXCEPT !.color =
                                     [@ EXCEPT !.swapchain = rank(@)]]]]

\* a loop that unwraps the results of the renderer: any error ends the process
ends_the_process_on_error(result) == result.kind # "Ok"

\* the Err arms of lines 118-121 and 136 log the error and go on: only a panic of the
\* callee ends the process
ends_the_process(result) == result.kind = "Panic"

\* lines 116-122: one pass of the loop up to the match on render's result; on Err the
\* error is logged and `continue` starts the next pass
EngineRender ==
    /\ ~crashed
    /\ held.stage = "none"
    /\ \E sc \in {None} \cup {Some(x) : x \in LoopScenes} :
       \E env \in EngineRenderEnvs(renderer, window, sc) :
          LET res == render(renderer, sc, window, env) IN
          /\ env.image_num < Len(res.r.images)
          /\ renderer' = IF res.result = Ok THEN res.r ELSE renumbered(res.r)
          /\ crashed' = ends_the_process(res.result)
          /\ held' = IF res.result = Ok
                     THEN [stage |-> "rendered", cb |-> res.out.cb,
                           image_num |-> res.out.image_num,
                           acquire_future |-> res.out.acquire_future, scene |-> sc]
                     ELSE NothingHeld
          /\ ret' = [Idle EXCEPT !.op = "render", !.result = res.result,
                                 !.env_ok = RenderEnvOk(env),
                                 !.entry = Entry(renderer), !.scene = sc]
    /\ loop_pass' = 1 - loop_pass
    /\ UNCHANGED <<window, futures_made, last_execute, ever_submitted, startup>>

\* lines 128-137: the rest of the pass; the result of execute_command_buffer is logged
\* either way and the loop goes round. Futures are named modulo MaxFrames.
EngineExecute ==
    /\ ~crashed
    /\ held.stage = "rendered"
    /\ \E outcome \in ExecuteOutcomes :
          LET env == [execute |-> outcome]
              res == execute_command_buffer(renderer, held.image_num, held.acquire_future,
                                            held.cb, env, futures_made + 1)
          IN
          /\ renderer' = renumbered(res.r)
          /\ crashed' = ends_the_process(res.result)
          /\ futures_made' = IF res.result = Ok
                             THEN (futures_made + 1) % MaxFrames ELSE futures_made
          /\ ret' = [Idle EXCEPT !.op = "execute_command_buffer", !.result = res.result,
                                 !.env_ok = (outcome = "ok"),
                                 !.scene = held.scene]
    /\ held' = NothingHeld
    /\ UNCHANGED <<window, last_execute, ever_submitted, startup, loop_pass>>

NextEngine ==
    \/ Resize
    \/ CloseWindow
    \/ EngineRender
    \/ EngineExecute

\* The steps of the loop itself, told by what they change: among the steps of NextEngine,
\* the render of a pass is the step that changes loop_pass, and the
\* execute_command_buffer of a pass the step that gives up what the pass held. Each is
\* possible exactly when the process lives and the loop stands before that call.
EngineRenderStep == ~crashed /\ held.stage = "none" /\ loop_pass' = 1 - loop_pass

EngineExecuteStep == ~crashed /\ held.stage = "rendered" /\ held' = NothingHeld

\* the loop is sequential code: while the process lives, its next call is made
SpecEngine ==
    Init /\ [][NextEngine]_vars
         /\ WF_loop_pass(EngineRenderStep) /\ WF_held(EngineExecuteStep)

----------------------------------------------------------------------------
(* Reading the observation of a call *)

HasEvent(trace, ev) == \E i \in 1..Len(trace) : trace[i].ev = ev

\* position of the first event ev of trace, 0 when there is none
FirstIndex(trace, ev) ==
    IF HasEvent(trace, ev)
    THEN CHOOSE i \in 1..Len(trace) :
            trace[i].ev = ev /\ \A j \in 1..(i - 1) : trace[j].ev # ev
    ELSE 0

CountEvents(trace, ev) == Cardinality({i \in 1..Len(trace) : trace[i].ev = ev})

Returned(op) == ret.op = op

IsDraw(c) == c.cmd = "draw_indexed"
HasMesh(object) == IsSome(object.mesh)
Draws(cb) == SelectSeq(cb, IsDraw)

\* the physical size of the window, when it is open
PhysicalSize == Unwrap(get_window_dimensions(window))

\* in the call observed by ret, the three rebuilds happened in order before the acquisition
RebuiltBeforeAcquire(trace) ==
    /\ 0 < FirstIndex(trace, "recreate_with_dimension")
    /\ FirstIndex(trace, "recreate_with_dimension") < FirstIndex(trace, "create_pipeline")
    /\ FirstIndex(trace, "create_pipeline") < FirstIndex(trace, "create_framebuffers")
    /\ FirstIndex(trace, "create_framebuffers") < FirstIndex(trace, "acquire_next_image")
    /\ CountEvents(trace, "acquire_next_image") = 1

----------------------------------------------------------------------------
(* C1 *)

\* C1: force_recreate_swapchain leaves the recreate flag set, and a render_scene entered
\* with the flag set attempts image acquisition only after it has rebuilt the swapchain,
\* then the pipeline, then the framebuffers; the acquisition is made against the new
\* swapchain, whose size is the window's physical size, and pipeline and framebuffers are
\* those of the new images.
C1_RebuildBeforeAcquire ==
    /\ Returned("force_recreate_swapchain") => renderer.recreate_swapchain
    /\ (/\ Returned("render_scene")
        /\ ret.entry.recreate_swapchain
        /\ HasEvent(ret.trace, "acquire_next_image"))
       => /\ RebuiltBeforeAcquire(ret.trace)
          /\ renderer.swapchain.gen = ret.entry.gen + 1
          /\ ret.trace[FirstIndex(ret.trace, "acquire_next_image")].arg = renderer.swapchain.gen
          /\ renderer.swapchain.dimensions = PhysicalSize
          /\ BuiltFromCurrentImages(renderer)

\* a render_scene entered with the flag set, after a resize, that acquired an image
C1_Witness ==
    /\ Returned("render_scene")
    /\ ret.entry.recreate_swapchain
    /\ ret.result = Ok
    /\ renderer.swapchain.gen = 1
    /\ renderer.images[1].dimensions # <<2, 2>>

----------------------------------------------------------------------------
(* C2 *)

\* the acquisition of the call observed by ret was reached and reported outcome
AcquireReported(outcome) ==
    /\ Returned("render_scene")
    /\ HasEvent(ret.trace, "acquire_next_image")
    /\ ret.env.acquire = outcome

\* C2: when acquire_next_image reports OutOfDate, render_scene returns
\* Err(AcquireError(OutOfDate)) without a panic, the recreate flag is set on return, the
\* caller gets no command buffer back, nothing was recorded, no uniform buffer was
\* updated and the in-flight slot is as it was at entry.
C2_AcquireOutOfDate ==
    AcquireReported("OutOfDate")
    => /\ ret.result = Err("AcquireError", "OutOfDate")
       /\ ~crashed
       /\ renderer.recreate_swapchain
       /\ held = NothingHeld
       /\ ~HasEvent(ret.trace, "begin_render_pass")
       /\ ~HasEvent(ret.trace, "draw_indexed")
       /\ ~HasEvent(ret.trace, "update_light_data")
       /\ ~HasEvent(ret.trace, "update_transformation_data")
       /\ renderer.uniform_manager = ret.entry.uniform_manager
       /\ renderer.previous_frame = ret.entry.previous_frame

\* OutOfDate reported to a render_scene that was entered with the flag clear and a frame
\* in flight
C2_Witness ==
    /\ AcquireReported("OutOfDate")
    /\ ~ret.entry.recreate_swapchain
    /\ IsSome(ret.entry.previous_frame)

----------------------------------------------------------------------------
(* C3 *)

FailedExecute == Returned("execute_command_buffer") /\ ret.result.kind = "Err"

\* C3 as stated: on every failing return of execute_command_buffer the future that was
\* in flight at entry is still held, neither dropped nor consumed.
C3_PreviousFrameKeptOnFailure ==
    FailedExecute
    => /\ renderer.previous_frame = ret.entry.previous_frame
       /\ ret.fate \in {"kept", "none"}

\* C3 amended: a failure of end_render_pass or build returns before the slot is touched;
\* a failure of then_execute or of the fence-and-flush returns with the slot empty, the
\* future taken from it destroyed with the failed chain. Either way no panic occurs and
\* the caller can start the next frame. A success consumes the previous future into the
\* new one.
C3_PreviousFrameOnFailure ==
    /\ FailedExecute /\ ret.result.cause \in {"end_render_pass", "build"}
       => /\ renderer.previous_frame = ret.entry.previous_frame
          /\ ret.fate \in {"kept", "none"}
          /\ ~HasEvent(ret.trace, "take")
    /\ FailedExecute /\ ret.result.cause \notin {"end_render_pass", "build"}
       => /\ renderer.previous_frame = None
          /\ ret.fate = (IF IsSome(ret.entry.previous_frame) THEN "dropped" ELSE "none")
    /\ FailedExecute => ~crashed /\ ENABLED CreateCommandBuffer
    /\ Returned("execute_command_buffer") /\ ret.result = Ok /\ IsSome(ret.entry.previous_frame)
       => /\ ret.fate = "joined"
          /\ Unwrap(renderer.previous_frame).previous = Unwrap(ret.entry.previous_frame).id

\* a submission that failed in then_execute while a frame was in flight
C3_Witness ==
    /\ FailedExecute
    /\ ret.result.cause = "then_execute"
    /\ IsSome(ret.entry.previous_frame)

----------------------------------------------------------------------------
(* C4 *)

FlushReported(outcome) ==
    Returned("execute_command_buffer") /\ ret.env.execute = outcome

\* C4: a fence-and-flush that fails with OutOfDate makes execute_command_buffer return
\* Err(FlushError(OutOfDate)) with the recreate flag set; the flag then stays set until
\* render_scene runs, and that render_scene acquires only after it has rebuilt the
\* swapchain.
C4_FlushOutOfDate ==
    [][ /\ (FlushReported("flush_out_of_date"))'
           => /\ ret'.result = Err("FlushError", "OutOfDate")
              /\ renderer'.recreate_swapchain
        /\ renderer.recreate_swapchain /\ ret'.op # "render_scene"
           => renderer'.recreate_swapchain
        /\ (/\ renderer.recreate_swapchain
            /\ ret'.op = "render_scene"
            /\ HasEvent(ret'.trace, "acquire_next_image"))
           => /\ RebuiltBeforeAcquire(ret'.trace)
              /\ renderer'.swapchain.gen = renderer.swapchain.gen + 1
      ]_vars

\* an OutOfDate flush of a frame submitted with the flag clear
C4_Witness ==
    /\ FlushReported("flush_out_of_date")
    /\ ~ret.entry.recreate_swapchain
    /\ renderer.recreate_swapchain

----------------------------------------------------------------------------
(* C5 *)

\* C5: a fence-and-flush that fails with an error other than OutOfDate makes
\* execute_command_buffer return Err(FlushError(that error)) with the in-flight slot
\* empty; the slot stays empty until the next execute_command_buffer, and when that one
\* succeeds its future starts from sync::now, not from the failed chain.
C5_FlushOtherError ==
    [][ /\ (FlushReported("flush_err"))'
           => /\ ret'.result = Err("FlushError", "DeviceLost")
              /\ renderer'.previous_frame = None
              /\ renderer'.recreate_swapchain = renderer.recreate_swapchain
        /\ renderer.previous_frame = None /\ ret'.op # "execute_command_buffer"
           => renderer'.previous_frame = None
        /\ (/\ renderer.previous_frame = None
            /\ ret'.op = "execute_command_buffer"
            /\ ret'.result = Ok)
           => /\ HasEvent(ret'.trace, "now")
              /\ Unwrap(renderer'.previous_frame).previous = 0
      ]_vars

\* a successful submission right after a flush error that emptied a full slot: the
\* future made is the second one and starts from sync::now
C5_Witness ==
    /\ Returned("execute_command_buffer")
    /\ ret.result = Ok
    /\ last_execute = "ok"
    /\ futures_made = 2
    /\ ret.entry.previous_frame = None
    /\ Unwrap(renderer.previous_frame).previous = 0

----------------------------------------------------------------------------
(* C6 *)

\* C6: the slot holds at most one future; after a successful execute_command_buffer it
\* holds the future of that submission: a new future, chained on the one that was in the
\* slot (or on sync::now), joined with the frame's acquire future, presenting the frame's
\* image, built by join, then_execute, then_swapchain_present, then_signal_fence_and_flush
\* in that order. The slot is empty only if no submission has succeeded yet or the most
\* recent execute_command_buffer failed.
C6_SingleInFlightFuture ==
    /\ Len(renderer.previous_frame) <= 1
    /\ Returned("execute_command_buffer") /\ ret.result = Ok
       => /\ IsSome(renderer.previous_frame)
          /\ Unwrap(renderer.previous_frame).id = futures_made
          /\ renderer.previous_frame # ret.entry.previous_frame
          /\ Unwrap(renderer.previous_frame).previous =
                (IF IsSome(ret.entry.previous_frame)
                 THEN Unwrap(ret.entry.previous_frame).id ELSE 0)
          /\ Unwrap(renderer.previous_frame).joined = Some([image_num |-> ret.image_num])
          /\ Unwrap(renderer.previous_frame).present = ret.image_num
          /\ FirstIndex(ret.trace, "join") < FirstIndex(ret.trace, "then_execute")
          /\ FirstIndex(ret.trace, "then_execute") < FirstIndex(ret.trace, "then_swapchain_present")
          /\ FirstIndex(ret.trace, "then_swapchain_present")
                < FirstIndex(ret.trace, "then_signal_fence_and_flush")
    /\ renderer.previous_frame = None => (~ever_submitted \/ last_execute = "failed")

\* the second successful submission in a row: its future replaces the first one
C6_Witness ==
    /\ Returned("execute_command_buffer")
    /\ ret.result = Ok
    /\ IsSome(ret.entry.previous_frame)
    /\ Unwrap(renderer.previous_frame).id = 2
    /\ Unwrap(renderer.previous_frame).previous = 1

----------------------------------------------------------------------------
(* C7 *)

\* C7: no call of render_scene or execute_command_buffer panics: each returns Ok or an
\* Err value and the process goes on.
C7_NoPanic ==
    /\ ~crashed
    /\ ret.result.kind \in {"Ok", "Err"}

----------------------------------------------------------------------------
(* C8 *)

\* the bindings of a descriptor set, by kind
BindingKinds(descriptor_set) == [i \in 1..Len(descriptor_set) |-> descriptor_set[i].binding]

\* opaque black and depth 1.0, into the framebuffer of the acquired image
IsClearingBegin(c, r, image_num) ==
    /\ c.cmd = "begin_render_pass"
    /\ c.args.clear_values = << <<0, 0, 0, 1>>, <<1>> >>
    /\ c.args.framebuffer.color = r.images[image_num + 1]

NoUniformUpdate ==
    /\ ~HasEvent(ret.trace, "update_light_data")
    /\ ~HasEvent(ret.trace, "update_transformation_data")
    /\ renderer.uniform_manager = ret.entry.uniform_manager

\* C8: with no active scene, and every Vulkan call of the frame succeeding on an open
\* window, render_scene returns Ok having recorded exactly begin_render_pass (clear colour
\* opaque black, clear depth 1.0) and no uniform update, and execute_command_buffer
\* returns Ok having submitted exactly begin_render_pass, end_render_pass: no draw call.
C8_EmptyFrame ==
    /\ (/\ Returned("render_scene")
        /\ ret.scene = None
        /\ ret.env_ok
        /\ IsSome(window.inner_size))
       => /\ ret.result = Ok
          /\ held.stage = "rendered"
          /\ Len(held.cb) = 1
          /\ IsClearingBegin(held.cb[1], renderer, held.image_num)
          /\ Len(Draws(held.cb)) = 0
          /\ NoUniformUpdate
    /\ (/\ Returned("execute_command_buffer")
        /\ ret.scene = None
        /\ ret.env_ok)
       => /\ ret.result = Ok
          /\ Len(ret.submitted) = 2
          /\ ret.submitted[1].cmd = "begin_render_pass"
          /\ ret.submitted[1].args.clear_values = << <<0, 0, 0, 1>>, <<1>> >>
          /\ ret.submitted[2].cmd = "end_render_pass"
          /\ Len(Draws(ret.submitted)) = 0
          /\ NoUniformUpdate

\* an empty frame submitted
C8_Witness ==
    /\ Returned("execute_command_buffer")
    /\ ret.scene = None
    /\ ret.result = Ok
    /\ Len(ret.submitted) = 2

----------------------------------------------------------------------------
(* C9 *)

\* the active scene of the call observed by ret holds exactly one object, which has a
\* mesh on which set_texture was never called
OnePlainMeshObject ==
    /\ IsSome(ret.scene)
    /\ Len(Unwrap(ret.scene).objects) = 1
    /\ HasMesh(Unwrap(ret.scene).objects[1])
    /\ ~Unwrap(Unwrap(ret.scene).objects[1].mesh).texture_set

----------------------------------------------------------------------------
(* C10 *)

MeshObjects(sc) == SelectSeq(sc.objects, HasMesh)

HasTexturedObject(sc) ==
    \E k \in 1..Len(sc.objects) :
        HasMesh(sc.objects[k]) /\ Unwrap(sc.objects[k].mesh).texture_set

\* C10: the draw of every object whose mesh has a texture is bound to a descriptor set of
\* exactly three bindings, in the order transform buffer, light buffer, sampled image,
\* the third being the image and the sampler of that mesh's texture; and a frame of a
\* scene holding such an object is recorded and submitted with Ok when its Vulkan calls
\* succeed.
C10_TexturedObjectBindings ==
    /\ (Returned("render_scene") /\ IsSome(ret.scene) /\ ret.result = Ok)
       => LET draws == Draws(held.cb)
              objs == MeshObjects(Unwrap(ret.scene))
          IN  /\ Len(draws) = Len(objs)
              /\ \A i \in 1..Len(objs) :
                    Unwrap(objs[i].mesh).texture_set
                    => LET ds == draws[i].args.descriptor_set IN
                       /\ BindingKinds(ds) = <<"buffer", "buffer", "sampled_image">>
                       /\ ds[1].resource = [transformation |-> [model |-> objs[i].model]]
                       /\ ds[2].resource = [light |-> Unwrap(ret.scene).light_data]
                       /\ ds[3].resource.image = <<Unwrap(objs[i].mesh).name, "image", TRUE>>
                       /\ ds[3].resource.sampler = <<Unwrap(objs[i].mesh).name, "sampler", TRUE>>
    /\ (/\ Returned("render_scene") \/ Returned("execute_command_buffer")
        /\ IsSome(ret.scene)
        /\ HasTexturedObject(Unwrap(ret.scene))
        /\ ret.env_ok)
       => ret.result = Ok

\* a frame of two textured objects submitted
C10_Witness ==
    /\ Returned("execute_command_buffer")
    /\ ret.result = Ok
    /\ IsSome(ret.scene)
    /\ Len(Unwrap(ret.scene).objects) = 2
    /\ \A k \in 1..2 : /\ HasMesh(Unwrap(ret.scene).objects[k])
                       /\ Unwrap(Unwrap(ret.scene).objects[k].mesh).texture_set
    /\ Len(Draws(ret.submitted)) = 2

----------------------------------------------------------------------------
(* C11 *)

\* the type scores as the ranking states them
TypeScore(ty) ==
    CASE ty = "DiscreteGpu" -> 4
      [] ty = "VirtualGpu" -> 3
      [] ty = "IntegratedGpu" -> 2
      [] ty = "Cpu" -> 1
      [] ty = "Other" -> 0

\* Renderer::new has returned after enumerating the adapters
Enumerated == created.called /\ ret.env.new # "instance_err"

\* the place in the enumeration of the adapter Renderer::new selected
Selected == Unwrap(created.physical_device)

\* the places of the adapters whose score is the highest of the enumeration
BestPlaces ==
    {i \in 1..Len(devices) : \A j \in 1..Len(devices) : TypeScore(devices[j]) <= TypeScore(devices[i])}

\* C11: for a non-empty enumeration the selection returns one of the enumerated adapters,
\* and no enumerated adapter has a higher type score than it under Discrete GPU 4,
\* Virtual GPU 3, Integrated GPU 2, CPU 1, Other 0; when every type is enumerated the
\* Discrete GPU is selected.
C11_MaxScoreSelected ==
    (Enumerated /\ Len(devices) > 0)
    => /\ IsSome(created.physical_device)
       /\ Selected \in 1..Len(devices)
       /\ \A j \in 1..Len(devices) : TypeScore(devices[j]) <= TypeScore(devices[Selected])
       /\ {devices[j] : j \in 1..Len(devices)} = PhysicalDeviceTypes
          => devices[Selected] = "DiscreteGpu"

\* one adapter of each type enumerated, the Discrete GPU neither first nor last
C11_Witness ==
    /\ Enumerated
    /\ devices = <<"Cpu", "DiscreteGpu", "Other", "IntegratedGpu", "VirtualGpu">>
    /\ Selected = 2
    /\ created.result = Ok

----------------------------------------------------------------------------
(* C12 *)

\* C12: for an empty enumeration the selection fails with NoPhysicalDeviceError, as a
\* value and not by a panic, and Renderer::new returns that error and no renderer.
C12_NoPhysicalDevice ==
    (Enumerated /\ Len(devices) = 0)
    => /\ rank_devices(devices).result = Err("NoPhysicalDeviceError", "rank_devices")
       /\ created.result = Err("NoPhysicalDeviceError", "rank_devices")
       /\ created.physical_device = None
       /\ renderer = NoRenderer
       /\ ~crashed

\* Renderer::new called on an instance without adapters, every other call succeeding
C12_Witness ==
    /\ Enumerated
    /\ devices = <<>>
    /\ ret.env.new = "ok"
    /\ created.result.kind = "Err"

----------------------------------------------------------------------------
(* C13 *)

\* C13 as stated: among the adapters sharing the highest score the earliest enumerated
\* is selected.
C13_EarliestOfTies ==
    (Enumerated /\ Len(devices) > 0)
    => /\ Selected \in BestPlaces
       /\ \A i \in BestPlaces : Selected <= i

\* C13 amended: among the adapters sharing the highest score the one enumerated last is
\* selected (Iterator::max_by returns the last of several equal maxima).
C13_LatestOfTies ==
    (Enumerated /\ Len(devices) > 0)
    => /\ Selected \in BestPlaces
       /\ \A i \in BestPlaces : i <= Selected

\* two Discrete GPUs enumerated with a lesser adapter after them: the second is selected
C13_Witness ==
    /\ Enumerated
    /\ devices = <<"DiscreteGpu", "DiscreteGpu", "Cpu">>
    /\ Selected = 2

----------------------------------------------------------------------------
(* C14 *)

\* C14: the recreate flag is clear after construction. A step raises it only if it is
\* force_recreate_swapchain, a render_scene whose acquisition reported OutOfDate, or an
\* execute_command_buffer whose fence-and-flush reported OutOfDate. A render_scene that
\* fails with any other acquire error or while recording returns that error with the flag
\* clear, as the acquisition found it; an execute_command_buffer that fails with any
\* other error returns it with the flag as it was at entry.
C14_FlagRaisedOnlyByStaleness ==
    /\ ~renderer.recreate_swapchain
    /\ [][ /\ (~renderer.recreate_swapchain /\ renderer'.recreate_swapchain)
              => \/ ret'.op = "force_recreate_swapchain"
                 \/ (AcquireReported("OutOfDate"))'
                 \/ (FlushReported("flush_out_of_date"))'
           /\ (/\ ret'.op = "render_scene"
               /\ HasEvent(ret'.trace, "acquire_next_image")
               /\ ret'.result.kind = "Err"
               /\ ret'.env.acquire # "OutOfDate")
              => /\ ~renderer'.recreate_swapchain
                 /\ ret'.result.variant # ""
           /\ (/\ ret'.op = "execute_command_buffer"
               /\ ret'.result.kind = "Err"
               /\ ret'.env.execute # "flush_out_of_date")
              => /\ renderer'.recreate_swapchain = renderer.recreate_swapchain
                 /\ ret'.result.variant # ""
         ]_vars

\* an acquisition that failed with SurfaceLost, right after a rebuild: the flag is clear
C14_Witness ==
    /\ AcquireReported("SurfaceLost")
    /\ ret.entry.recreate_swapchain
    /\ ret.result = Err("AcquireError", "SurfaceLost")
    /\ ~renderer.recreate_swapchain

----------------------------------------------------------------------------
(* C15 *)

\* C15: whenever render_scene has attempted the acquisition, or recorded scene commands,
\* the pipeline's viewport has the dimensions of the current swapchain images and there
\* is exactly one framebuffer per current image, each made of that image; the acquired
\* index selects a framebuffer and the render pass begun is on the framebuffer of the
\* acquired image. This holds whatever resizes, forced recreations and failed
\* recreations came before; between calls it holds whenever the flag is clear.
C15_BuiltFromCurrentImages ==
    /\ (Returned("render_scene") /\ HasEvent(ret.trace, "acquire_next_image"))
       => /\ BuiltFromCurrentImages(renderer)
          /\ renderer.pipeline.viewport.dimensions = renderer.images[1].dimensions
          /\ Len(renderer.framebuffers) = Len(renderer.images)
          /\ ret.result # Panic("index out of bounds")
    /\ (Returned("render_scene") /\ HasEvent(ret.trace, "begin_render_pass") /\ ret.result = Ok)
       => /\ held.image_num < Len(renderer.framebuffers)
          /\ held.cb[1].args.framebuffer = renderer.framebuffers[held.image_num + 1]
          /\ held.cb[1].args.framebuffer.color = renderer.images[held.image_num + 1]
    /\ ~renderer.recreate_swapchain => BuiltFromCurrentImages(renderer)

\* a frame recorded by the render_scene that completed a rebuild after an earlier rebuild
\* had failed half way (swapchain and images replaced, pipeline or framebuffers not)
C15_Witness ==
    /\ Returned("render_scene")
    /\ ret.entry.recreate_swapchain
    /\ ~ret.entry.built
    /\ ret.result = Ok
    /\ HasEvent(ret.trace, "begin_render_pass")
    /\ renderer.swapchain.gen = 2

----------------------------------------------------------------------------
(* C16 *)

IsTransformUpdate(e) == e.ev = "update_transformation_data"
IsUpdateOrDraw(e) == e.ev \in {"update_transformation_data", "draw_indexed"}

\* the transform updates and draws of a frame in scene iteration order: each object's
\* update, followed by its draw when it has a mesh
RECURSIVE UpdatesAndDraws(_)
UpdatesAndDraws(objects) ==
    IF Len(objects) = 0
    THEN <<>>
    ELSE <<Event("update_transformation_data", Head(objects).model)>>
         \o (IF HasMesh(Head(objects))
             THEN <<Event("draw_indexed", Head(objects).model)>> ELSE <<>>)
         \o UpdatesAndDraws(Tail(objects))

\* C16: a frame's operations are begin_render_pass, then for each object in scene
\* iteration order its transform update followed by its draw, then end_render_pass.
\* Every draw comes right after the transform update carrying the model matrix of the
\* object drawn, and is bound to the transform buffer holding that matrix.
C16_FrameOrder ==
    /\ Returned("render_scene")
       => /\ \A i \in 1..Len(ret.trace) :
                ret.trace[i].ev = "draw_indexed"
                => /\ i > 1
                   /\ ret.trace[i - 1] = Event("update_transformation_data", ret.trace[i].arg)
          /\ \A i \in 1..Len(ret.trace) :
                IsUpdateOrDraw(ret.trace[i])
                => /\ 0 < FirstIndex(ret.trace, "begin_render_pass")
                   /\ FirstIndex(ret.trace, "begin_render_pass") < i
    /\ (Returned("render_scene") /\ IsSome(ret.scene) /\ ret.result = Ok)
       => LET objs == MeshObjects(Unwrap(ret.scene)) IN
          /\ SelectSeq(ret.trace, IsUpdateOrDraw) = UpdatesAndDraws(Unwrap(ret.scene).objects)
          /\ CountEvents(ret.trace, "begin_render_pass") = 1
          /\ held.cb[1].cmd = "begin_render_pass"
          /\ Len(held.cb) = 1 + Len(objs)
          /\ \A i \in 1..Len(objs) :
                /\ IsDraw(held.cb[i + 1])
                /\ held.cb[i + 1].args.descriptor_set[1].resource
                      = [transformation |-> [model |-> objs[i].model]]
    /\ (Returned("execute_command_buffer") /\ ret.result = Ok)
       => /\ ret.submitted[1].cmd = "begin_render_pass"
          /\ ret.submitted[Len(ret.submitted)].cmd = "end_render_pass"
          /\ \A i \in 2..(Len(ret.submitted) - 1) : IsDraw(ret.submitted[i])
          /\ FirstIndex(ret.trace, "end_render_pass") = 1
          /\ FirstIndex(ret.trace, "end_render_pass") < FirstIndex(ret.trace, "then_execute")

\* a frame of two objects with different model matrices, both drawn, recorded
C16_Witness ==
    /\ Returned("render_scene")
    /\ ret.result = Ok
    /\ IsSome(ret.scene)
    /\ Len(Unwrap(ret.scene).objects) = 2
    /\ Unwrap(ret.scene).objects[1].model = 2
    /\ Unwrap(ret.scene).objects[2].model = 1
    /\ Len(Draws(held.cb)) = 2

----------------------------------------------------------------------------
(* C17 *)

\* the places in the scene of the objects that have a mesh
MeshPlaces(objects) == {k \in 1..Len(objects) : HasMesh(objects[k])}

\* where the update of object k stands among the updates and draws of the frame: after
\* one update for each earlier object and one draw for each earlier object with a mesh
UpdatePlace(objects, k) == k + Cardinality({j \in MeshPlaces(objects) : j < k})

\* C17: the number of indexed draws render_scene records is the number of objects of the
\* active scene that have a mesh; the i-th draw is that of the i-th such object, with
\* its mesh's buffers and texture; an object without a mesh gets its transform update
\* and no draw.
C17_OneDrawPerMesh ==
    (Returned("render_scene") /\ IsSome(ret.scene) /\ ret.result = Ok)
    => LET objects == Unwrap(ret.scene).objects
           objs == MeshObjects(Unwrap(ret.scene))
           draws == Draws(held.cb)
           ops == SelectSeq(ret.trace, IsUpdateOrDraw)
       IN  /\ Len(draws) = Cardinality(MeshPlaces(objects))
           /\ CountEvents(ret.trace, "draw_indexed") = Cardinality(MeshPlaces(objects))
           /\ Len(ops) = Len(objects) + Cardinality(MeshPlaces(objects))
           /\ \A i \in 1..Len(draws) :
                 /\ draws[i].args.vertex_buffer = <<Unwrap(objs[i].mesh).name, "vertex_buffer">>
                 /\ draws[i].args.index_buffer = <<Unwrap(objs[i].mesh).name, "index_buffer">>
                 /\ draws[i].args.descriptor_set[3].resource.image
                       = mesh_texture(Unwrap(objs[i].mesh)).image_buffer
                 /\ draws[i].args.descriptor_set[1].resource.transformation.model = objs[i].model
           /\ \A k \in 1..Len(objects) :
                 LET p == UpdatePlace(objects, k) IN
                 /\ ops[p] = Event("update_transformation_data", objects[k].model)
                 /\ HasMesh(objects[k])
                    <=> (p < Len(ops) /\ ops[p + 1] = Event("draw_indexed", objects[k].model))

\* a frame of an object without a mesh followed by an object with one: one draw
C17_Witness ==
    /\ Returned("render_scene")
    /\ ret.result = Ok
    /\ IsSome(ret.scene)
    /\ Len(Unwrap(ret.scene).objects) = 2
    /\ ~HasMesh(Unwrap(ret.scene).objects[1])
    /\ HasMesh(Unwrap(ret.scene).objects[2])
    /\ Len(Draws(held.cb)) = 1
    /\ Len(held.cb) = 2

----------------------------------------------------------------------------
(* C18 *)

\* the call observed by ret returned an error
ReturnedError == ret.op \in {"render", "execute_command_buffer"} /\ ret.result.kind = "Err"

\* C18: in the loop of Engine::run, a pass whose render returned an error makes no call
\* of execute_command_buffer: the loop is back at its top, nothing held, and the next
\* call it makes is the render of the next pass. An error of execute_command_buffer
\* leaves the loop at its top too. Neither ends the process, and after an error the loop
\* reaches the render of another pass.
C18_LoopSurvivesErrors ==
    /\ [][ /\ (ret'.op = "render" /\ ret'.result.kind = "Err")
              => /\ held'.stage = "none"
                 /\ ~crashed'
           /\ (ret'.op = "execute_command_buffer" /\ ret'.result.kind = "Err")
              => /\ held'.stage = "none"
                 /\ ~crashed'
           /\ (held.stage = "none" /\ ret'.op # "none")
              => ret'.op = "render" /\ loop_pass' # loop_pass
           /\ ret'.op = "execute_command_buffer"
              => /\ ret.op \in {"none", "render"}
                 /\ held.stage = "rendered"
                 /\ loop_pass' = loop_pass
         ]_vars
    /\ \A p \in 0..1 :
          (ReturnedError /\ loop_pass = p) ~> (ret.op = "render" /\ loop_pass = 1 - p)

\* an error of render in a pass that follows a failed pass: the flag is set and no frame
\* is in flight
C18_Witness ==
    /\ ret.op = "render"
    /\ ret.result.kind = "Err"
    /\ loop_pass = 0
    /\ renderer.previous_frame = None
    /\ renderer.recreate_swapchain

----------------------------------------------------------------------------
(* C19 *)

\* the render observed by ret failed in the rebuild or in the acquisition
RecreateOrAcquireFailed ==
    /\ ret.op = "render"
    /\ ret.result.kind # "Ok"
    /\ ret.result.cause \in {"recreate_with_dimension", "create_pipeline", "create_framebuffers",
                            "Couldn't create depth buffer!", WindowClosedMessage,
                            "OutOfDate", "SurfaceLost"}

\* the render observed by ret was entered with the flag set and completed the rebuild:
\* the flag is clear, pipeline and framebuffers are made for the current swapchain, which
\* is a new one (generations are renumbered when the render fails after the rebuild)
Rebuilt ==
    /\ ret.op = "render"
    /\ ret.entry.recreate_swapchain
    /\ ~renderer.recreate_swapchain
    /\ BuiltFromCurrentImages(renderer)
    /\ ret.result = Ok => renderer.swapchain.gen = ret.entry.gen + 1

\* a frame has just been submitted, the flag being clear
Submitted ==
    /\ ret.op = "execute_command_buffer"
    /\ ret.result = Ok
    /\ IsSome(renderer.previous_frame)
    /\ ~renderer.recreate_swapchain

\* C19 as stated: if from some point on neither the rebuild nor the acquisition fails,
\* then whenever the flag is set the loop comes to rebuild the swapchain with the flag
\* cleared and to submit a frame.
C19_RecoveryIfRebuildAndAcquireSucceed ==
    (<>[](~RecreateOrAcquireFailed))
    => /\ renderer.recreate_swapchain ~> Rebuilt
       /\ renderer.recreate_swapchain ~> Submitted

\* C19 amended: if from some point on every call the loop makes returns Ok (the rebuild,
\* the acquisition, the recording and the submission), then whenever the flag is set the
\* loop comes to rebuild the swapchain with the flag cleared and to submit a frame.
C19_RecoveryIfCallsSucceed ==
    (<>[](ret.result = Ok))
    => /\ renderer.recreate_swapchain ~> Rebuilt
       /\ renderer.recreate_swapchain ~> Submitted

\* a frame submitted in the pass after the one that found the swapchain out of date
C19_Witness ==
    /\ Submitted
    /\ loop_pass = 0
    /\ renderer.swapchain.dimensions # renderer.pipeline.viewport.dimensions
       \/ Unwrap(renderer.previous_frame).previous = 0

----------------------------------------------------------------------------
(* C20 *)

\* the fields of the renderer recreate_swapchain assigns, lines 233-239
RecreatedFields == {"swapchain", "images", "pipeline", "framebuffers", "recreate_swapchain"}

\* the outcomes of the calls of one recreate_swapchain
RecreateEnvs == [recreate : RecreateOutcomes, count : 1..MaxImages]

\* a render_scene that ran recreate_swapchain to its end has just returned
RecreatedInRenderScene ==
    /\ ret.op = "render_scene"
    /\ ret.entry.recreate_swapchain
    /\ renderer.swapchain.gen = ret.entry.gen + 1
    /\ BuiltFromCurrentImages(renderer)

\* C20: recreate_swapchain replaces only the swapchain, its images, the pipeline and the
\* framebuffers (and clears its flag): whatever its calls return, every other field of
\* the renderer, among them the render pass, the device, the queues, the surface and
\* the slot of the frame in flight, is as it was; the render pass, device, queues and
\* surface are those of construction after any number of recreations, the new pipeline
\* and framebuffers are built on that render pass, and a render_scene that rebuilt the
\* swapchain returns with the slot as it found it.
C20_RecreationKeepsTheRest ==
    LET constructed == new_renderer(renderer.swapchain.dimensions, renderer.swapchain.format,
                                    Len(renderer.images)) IN
    /\ \A f \in {"render_pass", "device", "queues", "surface"} : renderer[f] = constructed[f]
    /\ \A env \in RecreateEnvs :
          LET res == recreate_swapchain(renderer, window, env) IN
          /\ \A f \in (DOMAIN renderer) \ RecreatedFields : res.r[f] = renderer[f]
          /\ res.result = Ok
             => /\ res.r.swapchain.gen = renderer.swapchain.gen + 1
                /\ res.r.pipeline.render_pass = renderer.render_pass
                /\ \A i \in 1..Len(res.r.framebuffers) :
                      res.r.framebuffers[i].render_pass = renderer.render_pass
    /\ RecreatedInRenderScene
       => /\ renderer.previous_frame = ret.entry.previous_frame
          /\ renderer.pipeline.render_pass = constructed.render_pass

\* a second recreation has run while a frame was in flight
C20_Witness ==
    /\ RecreatedInRenderScene
    /\ renderer.swapchain.gen = 2
    /\ IsSome(renderer.previous_frame)
    /\ renderer.render_pass = create_renderpass("format0")

----------------------------------------------------------------------------
(* C21 *)

\* Renderer::new got as far as Swapchain::new
SwapchainRequested == created.called /\ IsSome(created.swapchain)

\* C21: the swapchain Renderer::new asks for has present mode Mailbox if the surface
\* capabilities report Mailbox as supported and Fifo otherwise, the capabilities' current
\* extent when that is defined and the current (physical) size of the window otherwise,
\* the first of the supported formats, and the minimum supported image count; it is
\* asked for whenever the calls before it succeed, and the renderer made has that
\* extent and that format.
C21_SwapchainRequest ==
    /\ (/\ created.called
        /\ ret.env.new \notin {"instance_err", "surface_err", "device_err", "capabilities_err"})
       => SwapchainRequested
    /\ SwapchainRequested
       => LET request == Unwrap(created.swapchain) IN
          /\ capabilities.present_modes.mailbox => request.mode = "Mailbox"
          /\ ~capabilities.present_modes.mailbox => request.mode = "Fifo"
          /\ IsSome(capabilities.current_extent)
             => request.dimensions = Unwrap(capabilities.current_extent)
          /\ ~IsSome(capabilities.current_extent) => request.dimensions = PhysicalSize
          /\ request.format = Head(capabilities.supported_formats)
          /\ request.num_images = capabilities.min_image_count
          /\ created.result = Ok
             => /\ renderer.swapchain.dimensions = request.dimensions
                /\ renderer.swapchain.format = request.format
                /\ Len(renderer.images) >= request.num_images

\* a surface that supports Mailbox, reports an extent other than the window's size, lists
\* two formats and needs two images
C21_Witness ==
    /\ SwapchainRequested
    /\ created.result = Ok
    /\ capabilities.present_modes.mailbox
    /\ Unwrap(created.swapchain).mode = "Mailbox"
    /\ IsSome(capabilities.current_extent)
    /\ Unwrap(capabilities.current_extent) # PhysicalSize
    /\ capabilities.supported_formats = <<"format1", "format0">>
    /\ renderer.swapchain.format = "format1"
    /\ capabilities.min_image_count = 2

----------------------------------------------------------------------------
(* C22 *)

\* render_scene has just returned from a call entered with the flag set and the window
\* open: recreate_swapchain got as far as its rebuilds
RebuildAttempted ==
    /\ ret.op = "render_scene"
    /\ ret.entry.recreate_swapchain
    /\ IsSome(window.inner_size)

\* one of the rebuilds of that call failed
RebuildStepFailed == RebuildAttempted /\ ret.env.recreate # "ok"

\* C22: the recreate flag is cleared only by a recreate_swapchain whose three rebuilds
\* (swapchain, pipeline, framebuffers) all succeeded; if any rebuild step fails,
\* render_scene returns an error, has not tried to acquire an image and leaves the flag
\* set; a render_scene entered with the flag set begins the rebuild again from the
\* swapchain.
C22_FailedRebuildKeepsFlag ==
    /\ (ret.op # "none" /\ ret.op # "new" /\ ret.entry.recreate_swapchain
           /\ ~renderer.recreate_swapchain)
       => /\ RebuildAttempted
          /\ ret.env.recreate = "ok"
          /\ HasEvent(ret.trace, "recreate_with_dimension")
          /\ HasEvent(ret.trace, "create_pipeline")
          /\ HasEvent(ret.trace, "create_framebuffers")
          /\ BuiltFromCurrentImages(renderer)
    /\ RebuildStepFailed
       => /\ ret.result.kind = "Err"
          /\ ~HasEvent(ret.trace, "acquire_next_image")
          /\ renderer.recreate_swapchain
    /\ RebuildAttempted => HasEvent(ret.trace, "recreate_with_dimension")

----------------------------------------------------------------------------
(* C23 *)

\* execute_command_buffer failed while finishing the command buffer (line 146)
FinishFailed == FailedExecute /\ ret.result.cause \in {"end_render_pass", "build"}

\* execute_command_buffer failed at then_execute or later (lines 151-166)
SubmitFailed == FailedExecute /\ ret.result.cause \notin {"end_render_pass", "build"}

\* C23: an execute_command_buffer that fails in end_render_pass or build returns before
\* it touches the slot of the frame in flight: the future in the slot and the recreate
\* flag are as they were at entry; one that fails at or after then_execute took the slot
\* before then_execute, and the slot is empty when it returns.
C23_SlotOnFailedExecute ==
    /\ FailedExecute
       => (FinishFailed <=> ret.env.execute \in {"end_render_pass_err", "build_err"})
    /\ FinishFailed
       => /\ ~HasEvent(ret.trace, "take")
          /\ ~HasEvent(ret.trace, "then_execute")
          /\ renderer.previous_frame = ret.entry.previous_frame
          /\ renderer.recreate_swapchain = ret.entry.recreate_swapchain
    /\ SubmitFailed
       => /\ HasEvent(ret.trace, "take")
          /\ FirstIndex(ret.trace, "take") < FirstIndex(ret.trace, "then_execute")
          /\ renderer.previous_frame = None

\* build failed while a frame was in flight and the flag was set
C23_Witness ==
    /\ FinishFailed
    /\ ret.result.cause = "build"
    /\ IsSome(ret.entry.previous_frame)
    /\ IsSome(renderer.previous_frame)
    /\ ret.entry.recreate_swapchain

====
